---- MODULE Spec2Model ----
(***************************************************************************)
(* Model of the ray-tracing core of the raytracer crate:                   *)
(*   src/raytracer/src/main.rs      cast_shadow, offset_origin, cast_ray   *)
(*   src/raytracer/src/textures.rs  TextureManager                         *)
(*                                                                         *)
(* Numbers.  f32 values are modelled in fixed point: every quantity        *)
(* (positions, lengths, unit vectors, colours, intensities, albedo,        *)
(* reflectivity, u/v) is an integer count of ORIGIN_BIAS = 1e-4, so that   *)
(* 1.0 is Scale = 10000.  Vectors are 3-tuples <<x, y, z>>.                *)
(***************************************************************************)
EXTENDS Integers, Sequences, FiniteSets, TLC

\* 1.0 in units of ORIGIN_BIAS = 1e-4
Scale == 10000
\* f32::INFINITY
INFINITY == 1000000000

----------------------------------------------------------------------------
(* Scalar helpers *)

Abs(a) == IF a < 0 THEN -a ELSE a
Max(a, b) == IF a >= b THEN a ELSE b
Min(a, b) == IF a <= b THEN a ELSE b

\* f32 division modelled as integer division truncating toward zero
Div(a, b) == IF (a >= 0) = (b > 0) THEN Abs(a) \div Abs(b) ELSE -(Abs(a) \div Abs(b))

\* product of two Scale-valued numbers, Scale-valued
Mul(a, b) == Div(a * b, Scale)

\* Newton's iteration from a start at or above the root: decreases to the floor of the root
RECURSIVE SqrtIter(_, _)
SqrtIter(n, x) ==
    LET y == (x + n \div x) \div 2
    IN  IF y >= x THEN x ELSE SqrtIter(n, y)

\* f32::sqrt on the integer grid (floor of the square root)
ISqrt(n) ==
    IF n < 2 THEN n
    ELSE SqrtIter(n, IF n < 10000 THEN 100
                     ELSE IF n < 1000000 THEN 1000
                     ELSE IF n < 100000000 THEN 10000 ELSE 46341)

\* f32::powf with a non-negative integral exponent; powf(x, 0) = 1 for every x
RECURSIVE powf(_, _)
powf(base, n) == IF n = 0 THEN Scale ELSE Mul(base, powf(base, n - 1))

----------------------------------------------------------------------------
(* raylib Vector3 *)

Zero3 == <<0, 0, 0>>
One3 == <<Scale, Scale, Scale>>

VAdd(a, b) == <<a[1] + b[1], a[2] + b[2], a[3] + b[3]>>
VSub(a, b) == <<a[1] - b[1], a[2] - b[2], a[3] - b[3]>>
VNeg(a) == <<-a[1], -a[2], -a[3]>>
\* raw integer dot product
Dot(a, b) == a[1] * b[1] + a[2] * b[2] + a[3] * b[3]
\* vector times a Scale-valued scalar
VScale(a, s) == <<Div(a[1] * s, Scale), Div(a[2] * s, Scale), Div(a[3] * s, Scale)>>
\* Vector3::length, in the unit of the vector's components
Length(a) == ISqrt(Dot(a, a))
\* Vector3::normalized: a Scale-valued unit vector; raylib leaves a zero vector unchanged
Normalized(a) ==
    LET len == Length(a)
    IN  IF len = 0 THEN a
        ELSE <<Div(a[1] * Scale, len), Div(a[2] * Scale, len), Div(a[3] * Scale, len)>>

----------------------------------------------------------------------------
(* textures.rs: the image files on disk, CpuTexture and TextureManager *)

SkyFaces == <<"front", "back", "left", "right", "top", "bottom">>
\* the SkyboxTextures value main builds: one path per face
Skybox == [f \in {SkyFaces[i] : i \in 1..6} |-> "assets/skybox/" \o f \o ".png"]
SkyboxPaths == {Skybox[f] : f \in DOMAIN Skybox}
TexPath == "assets/glass.png"
\* a path no image file exists at: Image::load_image fails on it
NoFilePath == "assets/nofile.png"
ImagePaths == SkyboxPaths \cup {TexPath}

\* a pixel byte per channel (0..255), distinct per file and pixel position
Byte(path, i, ch) ==
    LET k == CHOOSE n \in 1..7 :
                 <<"assets/glass.png", "assets/skybox/front.png", "assets/skybox/back.png",
                   "assets/skybox/left.png", "assets/skybox/right.png",
                   "assets/skybox/top.png", "assets/skybox/bottom.png">>[n] = path
    IN  (k * 30 + i * 7 + ch * 3) % 256

\* Image::load_image: the decoded file, 2 x 2 pixels, row-major Color values
ImageFile(path) ==
    [width |-> 2, height |-> 2,
     data |-> [i \in 1..4 |-> <<Byte(path, i, 1), Byte(path, i, 2), Byte(path, i, 3)>>]]

\* CpuTexture::from_image: channel / 255.0
from_image(image) ==
    [width |-> image.width, height |-> image.height,
     pixels |-> [i \in DOMAIN image.data |->
                   <<Div(image.data[i][1] * Scale, 255),
                     Div(image.data[i][2] * Scale, 255),
                     Div(image.data[i][3] * Scale, 255)>>]]

\* f32 -> u32 cast: saturating, negative values become 0
AsU32(a) == IF a < 0 THEN 0 ELSE a

\* u.max(0.0).min(1.0)
Clamp01(a) == Min(Max(a, 0), Scale)

\* n / d * 0.5 + 0.5; a 0/0 is NaN, which max(0.0) turns into 0.0
FaceCoord(n, d) == IF d = 0 THEN 0 ELSE Clamp01(Div(Div(n * Scale, d), 2) + Scale \div 2)

\* a face selection whose Z faces divide by the y component
SkyboxFace_divides_by_y(direction) ==
    LET x == direction[1]
        y == direction[2]
        z == direction[3]
        abs_x == Abs(x)
        abs_y == Abs(y)
        abs_z == Abs(z)
    IN  IF abs_x > abs_y /\ abs_x > abs_z
        THEN IF x > 0
             THEN [face |-> "right", u |-> FaceCoord(-z, abs_x), v |-> FaceCoord(-y, abs_x), divisor |-> abs_x]
             ELSE [face |-> "left", u |-> FaceCoord(z, abs_x), v |-> FaceCoord(-y, abs_x), divisor |-> abs_x]
        ELSE IF abs_y > abs_z
        THEN IF y > 0
             THEN [face |-> "top", u |-> FaceCoord(x, abs_y), v |-> FaceCoord(-z, abs_y), divisor |-> abs_y]
             ELSE [face |-> "bottom", u |-> FaceCoord(x, abs_y), v |-> FaceCoord(z, abs_y), divisor |-> abs_y]
        ELSE IF z > 0
             THEN [face |-> "front", u |-> FaceCoord(x, abs_y), v |-> FaceCoord(-y, abs_y), divisor |-> abs_y]
             ELSE [face |-> "back", u |-> FaceCoord(-x, abs_y), v |-> FaceCoord(-y, abs_y), divisor |-> abs_y]

\* the face and the unclamped-then-clamped (u, v) sample_skybox picks for a direction
SkyboxFace(direction) ==
    LET x == direction[1]
        y == direction[2]
        z == direction[3]
        abs_x == Abs(x)
        abs_y == Abs(y)
        abs_z == Abs(z)
    IN  IF abs_x > abs_y /\ abs_x > abs_z
        THEN IF x > 0
             THEN [face |-> "right", u |-> FaceCoord(-z, abs_x), v |-> FaceCoord(-y, abs_x), divisor |-> abs_x]
             ELSE [face |-> "left", u |-> FaceCoord(z, abs_x), v |-> FaceCoord(-y, abs_x), divisor |-> abs_x]
        ELSE IF abs_y > abs_z
        THEN IF y > 0
             THEN [face |-> "top", u |-> FaceCoord(x, abs_y), v |-> FaceCoord(-z, abs_y), divisor |-> abs_y]
             ELSE [face |-> "bottom", u |-> FaceCoord(x, abs_y), v |-> FaceCoord(z, abs_y), divisor |-> abs_y]
        ELSE IF z > 0
             THEN [face |-> "front", u |-> FaceCoord(x, abs_z), v |-> FaceCoord(-y, abs_z), divisor |-> abs_z]
             ELSE [face |-> "back", u |-> FaceCoord(-x, abs_z), v |-> FaceCoord(-y, abs_z), divisor |-> abs_z]

\* the procedural sky used when no skybox is configured
ProceduralSky(direction) ==
    LET d == Normalized(direction)
        t == Div(d[2] + Scale, 2)
        green == <<1000, 6000, 2000>>
        white == <<Scale, Scale, Scale>>
        blue == <<3000, 5000, Scale>>
    IN  IF t < 5400
        THEN LET k == Div(t * Scale, 5500) IN VAdd(VScale(green, Scale - k), VScale(white, k))
        ELSE IF t < 5500 THEN white
        ELSE IF t < 8000
        THEN LET k == Div((t - 5500) * Scale, 2500) IN VAdd(VScale(white, Scale - k), VScale(blue, k))
        ELSE blue

\* Option<T>: None is the empty sequence, Some(x) the one-element sequence
None == <<>>
Some(x) == <<x>>
IsSome(o) == Len(o) = 1
Unwrapped(o) == o[1]

\* what a call yields: a value, or a panic that unwinds out of the caller
Ok(v) == [panic |-> FALSE, value |-> v]
Panic == [panic |-> TRUE, value |-> Zero3]

\* TextureManager::sample_skybox on a manager tm = [cpu_textures, textures, skybox_textures];
\* the unwrap of the face lookup panics on a path absent from cpu_textures
sample_skybox(tm, direction) ==
    IF IsSome(tm.skybox_textures)
    THEN LET skybox == Unwrapped(tm.skybox_textures)
             sel == SkyboxFace(direction)
             texture_path == skybox[sel.face]
         IN  IF texture_path \notin DOMAIN tm.cpu_textures THEN Panic
             ELSE LET cpu_texture == tm.cpu_textures[texture_path]
                      tx == AsU32(Div(sel.u * (cpu_texture.width - 1), Scale))
                      ty == AsU32(Div(sel.v * (cpu_texture.height - 1), Scale))
                      index == ty * cpu_texture.width + tx
                  IN  IF index < Len(cpu_texture.pixels)
                      THEN Ok(cpu_texture.pixels[index + 1])
                      ELSE Ok(One3)
    ELSE Ok(ProceduralSky(direction))

\* TextureManager::get_pixel_color
get_pixel_color(tm, path, tx, ty) ==
    IF path \in DOMAIN tm.cpu_textures
    THEN LET cpu_texture == tm.cpu_textures[path]
             x == Min(tx, cpu_texture.width - 1)
             y == Min(ty, cpu_texture.height - 1)
         IN  IF x < 0 \/ y < 0 \/ x >= cpu_texture.width \/ y >= cpu_texture.height
             THEN One3
             ELSE LET index == y * cpu_texture.width + x
                  IN  IF index < Len(cpu_texture.pixels)
                      THEN cpu_texture.pixels[index + 1]
                      ELSE One3
    ELSE One3

\* TextureManager::get_texture
get_texture(tm, path) == IF path \in DOMAIN tm.textures THEN Some(tm.textures[path]) ELSE None

\* TextureManager::default
EmptyManager ==
    [cpu_textures |-> [p \in {} |-> 0], textures |-> [p \in {} |-> 0], skybox_textures |-> None]

\* a load that stores the GPU texture and leaves the CPU pixel table alone
load_texture_gpu_only(tm, path) ==
    IF path \in DOMAIN tm.textures THEN [panic |-> FALSE, tm |-> tm]
    ELSE IF path \notin ImagePaths THEN [panic |-> TRUE, tm |-> tm]
    ELSE LET image == ImageFile(path)
             texture == [width |-> image.width, height |-> image.height]
         IN  [panic |-> FALSE,
              tm |-> [tm EXCEPT
                        !.textures = [p \in DOMAIN tm.textures \cup {path} |->
                                            IF p = path THEN texture ELSE tm.textures[p]]]]

\* TextureManager::load_texture: the manager after the call and whether the call panicked
load_texture(tm, path) ==
    IF path \in DOMAIN tm.textures THEN [panic |-> FALSE, tm |-> tm]
    ELSE IF path \notin ImagePaths THEN [panic |-> TRUE, tm |-> tm]
    ELSE LET image == ImageFile(path)
             texture == [width |-> image.width, height |-> image.height]
             cpu_texture == from_image(image)
         IN  [panic |-> FALSE,
              tm |-> [tm EXCEPT
                        !.cpu_textures = [p \in DOMAIN tm.cpu_textures \cup {path} |->
                                            IF p = path THEN cpu_texture ELSE tm.cpu_textures[p]],
                        !.textures = [p \in DOMAIN tm.textures \cup {path} |->
                                            IF p = path THEN texture ELSE tm.textures[p]]]]

RECURSIVE LoadAll(_, _, _)
LoadAll(r, paths, i) ==
    IF r.panic \/ i > Len(paths) THEN r
    ELSE LoadAll(load_texture(r.tm, paths[i]), paths, i + 1)

\* TextureManager::load_skybox: the six faces in the order front, back, left, right, top,
\* bottom, then skybox_textures = Some(skybox)
load_skybox(tm, skybox) ==
    LET loaded == LoadAll([panic |-> FALSE, tm |-> tm],
                          <<skybox.front, skybox.back, skybox.left,
                            skybox.right, skybox.top, skybox.bottom>>, 1)
    IN  IF loaded.panic THEN loaded
        ELSE [panic |-> FALSE, tm |-> [loaded.tm EXCEPT !.skybox_textures = Some(skybox)]]

----------------------------------------------------------------------------
(* material.rs, light.rs, cube.rs, snell.rs and the bvh crate *)

\* Material
MaterialOf(diffuse, albedo, specular, reflectivity, transparency, refractive_index, texture, emission) ==
    [diffuse |-> diffuse, albedo |-> albedo, specular |-> specular,
     reflectivity |-> reflectivity, transparency |-> transparency,
     refractive_index |-> refractive_index, texture |-> texture, emission |-> emission]

\* Light::new
LightOf(position, color, intensity) ==
    [position |-> position, color |-> color, intensity |-> intensity]

\* Cube: an axis-aligned box with its material
CubeOf(min_bounds, max_bounds, material) ==
    [min_bounds |-> min_bounds, max_bounds |-> max_bounds, material |-> material]

BlackMaterial == MaterialOf(Zero3, <<0, 0>>, 0, 0, 0, 0, None, Zero3)

\* Intersect::empty
EmptyIntersect ==
    [is_intersecting |-> FALSE, point |-> Zero3, normal |-> Zero3, distance |-> 0,
     material |-> BlackMaterial, u |-> 0, v |-> 0]

\* the near edge a box intersection must reach to count as a hit
IntersectEps == 1

\* the parametric interval <<near, far>> in which the ray is between the two planes of
\* one axis; a zero direction component puts no constraint on the axis
Slab(cube, origin, direction, i) ==
    IF direction[i] = 0 THEN <<-INFINITY, INFINITY>>
    ELSE LET t1 == Div((cube.min_bounds[i] - origin[i]) * Scale, direction[i])
             t2 == Div((cube.max_bounds[i] - origin[i]) * Scale, direction[i])
         IN  IF t1 <= t2 THEN <<t1, t2>> ELSE <<t2, t1>>

Max3(a, b, c) == Max(a, Max(b, c))
Min3(a, b, c) == Min(a, Min(b, c))

\* the point's coordinate on one axis as a fraction of the box's span, clamped to [0, 1]
SpanCoord(cube, point, i) ==
    LET span == cube.max_bounds[i] - cube.min_bounds[i]
    IN  IF span = 0 THEN 0 ELSE Clamp01(Div((point[i] - cube.min_bounds[i]) * Scale, span))

\* the axis of the face the ray enters through: its slab is the last one entered
entry_axis(slab, t_near) ==
    IF slab[1][1] = t_near THEN 1 ELSE IF slab[2][1] = t_near THEN 2 ELSE 3

\* the hit record of a ray that enters the box at point through the face of axis
face_hit(cube, direction, axis, point, t_near) ==
    [is_intersecting |-> TRUE, point |-> point,
     normal |-> [i \in 1..3 |-> IF i = axis THEN (IF direction[axis] > 0 THEN -Scale ELSE Scale) ELSE 0],
     distance |-> t_near, material |-> cube.material,
     u |-> SpanCoord(cube, point, IF axis = 1 THEN 3 ELSE 1),
     v |-> SpanCoord(cube, point, IF axis = 2 THEN 3 ELSE 2)]

\* the ray hits when the three slabs overlap in front of the origin
slab_hit(cube, origin, direction, slab, t_near, t_far) ==
    IF t_near > t_far \/ t_near < IntersectEps THEN EmptyIntersect
    ELSE face_hit(cube, direction, entry_axis(slab, t_near),
                  VAdd(origin, VScale(direction, t_near)), t_near)

\* the latest entry and the earliest exit over the three slabs
slab_overlap(cube, origin, direction, slab) ==
    slab_hit(cube, origin, direction, slab,
             Max3(slab[1][1], slab[2][1], slab[3][1]), Min3(slab[1][2], slab[2][2], slab[3][2]))

\* Cube::ray_intersect: the slab method
ray_intersect(cube, origin, direction) ==
    slab_overlap(cube, origin, direction, [i \in 1..3 |-> Slab(cube, origin, direction, i)])

\* the ray meets the box's bounding volume somewhere ahead of its origin
HitsBounds(cube, origin, direction) ==
    /\ \A i \in 1..3 : direction[i] = 0 =>
           cube.min_bounds[i] <= origin[i] /\ origin[i] <= cube.max_bounds[i]
    /\ LET slab == [i \in 1..3 |-> Slab(cube, origin, direction, i)]
           t_near == Max3(slab[1][1], slab[2][1], slab[3][1])
           t_far == Min3(slab[1][2], slab[2][2], slab[3][2])
       IN  t_near <= t_far /\ t_far >= 0

\* the leaves from position i on whose bounding volume the ray meets, in leaf order
RECURSIVE Filter(_, _, _, _, _)
Filter(order, objs, origin, direction, i) ==
    IF i > Len(order) THEN <<>>
    ELSE (IF HitsBounds(objs[order[i]], origin, direction) THEN <<order[i]>> ELSE <<>>)
         \o Filter(order, objs, origin, direction, i + 1)

\* BVH::traverse: the indices of the candidate primitives, in the tree's leaf order
traverse(tree, objs, origin, direction) == Filter(tree, objs, origin, direction, 1)

\* a . b for Scale-valued vectors, Scale-valued
DotS(a, b) == Div(Dot(a, b), Scale)

\* snell.rs reflect: incident - normal * 2 * (incident . normal)
reflect(incident, normal) == VSub(incident, VScale(normal, 2 * DotS(incident, normal)))

\* snell.rs refract: Snell's law; total internal reflection yields no direction (zero)
refract(incident, normal, refractive_index) ==
    LET d == Max(-Scale, Min(Scale, DotS(incident, normal)))
        outside == d <= 0
        cosi == Abs(d)
        etai == IF outside THEN Scale ELSE refractive_index
        etat == IF outside THEN refractive_index ELSE Scale
        n == IF outside THEN normal ELSE VNeg(normal)
        eta == Div(etai * Scale, etat)
        k == Scale - Mul(Mul(eta, eta), Scale - Mul(cosi, cosi))
    IN  IF k < 0 THEN Zero3
        ELSE VAdd(VScale(incident, eta), VScale(n, Mul(eta, cosi) - ISqrt(k * Scale)))

\* snell.rs refract: the radicand of Snell's law is negative, so that no refracted
\* direction exists
total_internal_reflection(incident, normal, refractive_index) ==
    LET d == Max(-Scale, Min(Scale, DotS(incident, normal)))
        eta == IF d <= 0 THEN Div(Scale * Scale, refractive_index)
                         ELSE Div(refractive_index * Scale, Scale)
    IN  Scale - Mul(Mul(eta, eta), Scale - Mul(d, d)) < 0

----------------------------------------------------------------------------
(* main.rs: cast_shadow, offset_origin *)

\* the shadow ray's bias, 0.001
SHADOW_BIAS == 10
\* the attenuation of an occluded light, 0.7
SHADOW_ATTENUATION == 7000
ORIGIN_BIAS == 1
\* emissive_objects.iter().take(5)
EMISSIVE_TAKE == 5
\* diff_vec.dot(diff_vec) < 0.01, in ORIGIN_BIAS units squared
SELF_LIGHT_DIST_SQ == 1000000

\* cast_shadow's ray: its origin, its direction and the distance to the light
shadow_ray(intersect, light) ==
    LET light_direction == Normalized(VSub(light.position, intersect.point))
        shadow_ray_origin == VAdd(intersect.point, VScale(intersect.normal, SHADOW_BIAS))
    IN  [origin |-> shadow_ray_origin, direction |-> light_direction,
         light_distance |-> Length(VSub(light.position, shadow_ray_origin))]

\* a loop that takes any intersected candidate for an occluder, wherever the light is
RECURSIVE shadow_loop_any_hit(_, _, _, _)
shadow_loop_any_hit(hit_shapes, objs, ray, i) ==
    IF i > Len(hit_shapes) THEN 0
    ELSE IF ray_intersect(objs[hit_shapes[i]], ray.origin, ray.direction).is_intersecting
         THEN SHADOW_ATTENUATION
         ELSE shadow_loop_any_hit(hit_shapes, objs, ray, i + 1)

\* the loop of cast_shadow over hit_shapes from position i on
RECURSIVE shadow_loop(_, _, _, _)
shadow_loop(hit_shapes, objs, ray, i) ==
    IF i > Len(hit_shapes) THEN 0
    ELSE LET shadow_intersect == ray_intersect(objs[hit_shapes[i]], ray.origin, ray.direction)
         IN  IF shadow_intersect.is_intersecting /\ shadow_intersect.distance < ray.light_distance
             THEN SHADOW_ATTENUATION
             ELSE shadow_loop(hit_shapes, objs, ray, i + 1)

\* cast_shadow
cast_shadow(intersect, light, tree, objs) ==
    LET ray == shadow_ray(intersect, light)
    IN  shadow_loop(traverse(tree, objs, ray.origin, ray.direction), objs, ray, 1)

\* a bias subtracted when the ray leaves along the normal, added otherwise
offset_origin_same_way(intersect, ray_direction) ==
    LET offset == VScale(intersect.normal, ORIGIN_BIAS)
    IN  IF Dot(ray_direction, intersect.normal) > 0
        THEN VSub(intersect.point, offset)
        ELSE VAdd(intersect.point, offset)

\* offset_origin
offset_origin(intersect, ray_direction) ==
    LET offset == VScale(intersect.normal, ORIGIN_BIAS)
    IN  IF Dot(ray_direction, intersect.normal) < 0
        THEN VSub(intersect.point, offset)
        ELSE VAdd(intersect.point, offset)

----------------------------------------------------------------------------
(* main.rs: the pieces of cast_ray *)

\* a cutoff one level too deep
depth_cutoff_late(depth) == depth > 2

\* depth > 1: the call returns the sky without looking at the scene
depth_cutoff(depth) == depth > 1

\* a recursive call that passes its own depth on
next_depth_same(depth) == depth

\* depth + 1: the depth argument of the reflection and refraction calls
next_depth(depth) == depth + 1

\* a miss that yields black
miss_color_black(tm, ray_direction) == Ok(Zero3)

\* the colour of a ray that hits nothing
miss_color(tm, ray_direction) == sample_skybox(tm, ray_direction)

\* a loop that lets a candidate at an equal distance replace the nearest one
RECURSIVE nearest_loop_keeps_last(_, _, _, _, _, _)
nearest_loop_keeps_last(hit_shapes, objs, ray_origin, ray_direction, i, best) ==
    IF i > Len(hit_shapes) THEN best.intersect
    ELSE LET tmp == ray_intersect(objs[hit_shapes[i]], ray_origin, ray_direction)
         IN  IF tmp.is_intersecting /\ tmp.distance <= best.zbuffer
             THEN nearest_loop_keeps_last(hit_shapes, objs, ray_origin, ray_direction, i + 1,
                                          [zbuffer |-> tmp.distance, intersect |-> tmp])
             ELSE nearest_loop_keeps_last(hit_shapes, objs, ray_origin, ray_direction, i + 1, best)

\* the nearest-hit loop over hit_shapes from position i on
RECURSIVE nearest_loop(_, _, _, _, _, _)
nearest_loop(hit_shapes, objs, ray_origin, ray_direction, i, best) ==
    IF i > Len(hit_shapes) THEN best.intersect
    ELSE LET tmp == ray_intersect(objs[hit_shapes[i]], ray_origin, ray_direction)
         IN  IF tmp.is_intersecting /\ tmp.distance < best.zbuffer
             THEN nearest_loop(hit_shapes, objs, ray_origin, ray_direction, i + 1,
                               [zbuffer |-> tmp.distance, intersect |-> tmp])
             ELSE nearest_loop(hit_shapes, objs, ray_origin, ray_direction, i + 1, best)

nearest_hit(hit_shapes, objs, ray_origin, ray_direction) ==
    nearest_loop(hit_shapes, objs, ray_origin, ray_direction, 1,
                 [zbuffer |-> INFINITY, intersect |-> EmptyIntersect])

\* (min_bounds + max_bounds) * 0.5
cube_center(cube) ==
    LET sum == VAdd(cube.min_bounds, cube.max_bounds)
    IN  <<Div(sum[1], 2), Div(sum[2], 2), Div(sum[3], 2)>>

\* secondary lights for every emissive cube, without the take(5)
RECURSIVE emissive_lights_uncapped(_, _, _, _)
emissive_lights_uncapped(emissive, objs, point, i) ==
    IF i > Len(emissive) THEN <<>>
    ELSE LET center == cube_center(objs[emissive[i]])
             diff_vec == VSub(center, point)
             rest == emissive_lights_uncapped(emissive, objs, point, i + 1)
         IN  IF Dot(diff_vec, diff_vec) < SELF_LIGHT_DIST_SQ THEN rest
             ELSE <<LightOf(center, Normalized(objs[emissive[i]].material.emission),
                            Length(objs[emissive[i]].material.emission))>> \o rest

\* the secondary lights pushed for the emissive cubes from position i on
RECURSIVE emissive_lights(_, _, _, _)
emissive_lights(emissive, objs, point, i) ==
    IF i > Min(Len(emissive), EMISSIVE_TAKE) THEN <<>>
    ELSE LET emissive_cube == objs[emissive[i]]
             center == cube_center(emissive_cube)
             diff_vec == VSub(center, point)
             rest == emissive_lights(emissive, objs, point, i + 1)
         IN  IF Dot(diff_vec, diff_vec) < SELF_LIGHT_DIST_SQ THEN rest
             ELSE <<LightOf(center, Normalized(emissive_cube.material.emission),
                            Length(emissive_cube.material.emission))>> \o rest

\* lights: the primary light followed by the secondary lights
build_lights(primary, emissive, objs, intersect) ==
    <<primary>> \o emissive_lights(emissive, objs, intersect.point, 1)

\* a shading iteration that leaves the light's intensity out
shade_light_unit_intensity(frame, current_light, tree, objs) ==
    LET intersect == frame.intersect
        light_direction == Normalized(VSub(current_light.position, intersect.point))
        shadow_intensity == cast_shadow(intersect, current_light, tree, objs)
        light_intensity == Scale - shadow_intensity
    IN  [diffuse |-> Mul(Max(DotS(intersect.normal, light_direction), 0), light_intensity),
         specular |-> VScale(current_light.color, light_intensity),
         shadow |-> shadow_intensity]

\* one iteration of the shading loop: the diffuse intensity and the specular colour
\* the light adds
shade_light(frame, current_light, tree, objs) ==
    LET intersect == frame.intersect
        normal == intersect.normal
        view_direction == Normalized(VSub(frame.ray_origin, intersect.point))
        light_direction == Normalized(VSub(current_light.position, intersect.point))
        reflection_direction == Normalized(reflect(VNeg(light_direction), normal))
        shadow_intensity == cast_shadow(intersect, current_light, tree, objs)
        light_intensity == Mul(current_light.intensity, Scale - shadow_intensity)
        specular_intensity ==
            Mul(powf(Max(DotS(view_direction, reflection_direction), 0),
                     intersect.material.specular), light_intensity)
    IN  [diffuse |-> Mul(Max(DotS(normal, light_direction), 0), light_intensity),
         specular |-> VScale(current_light.color, specular_intensity),
         shadow |-> shadow_intensity]

\* diffuse_color: the texture's pixel at (u, v), or the flat colour; get_texture's unwrap
\* panics on a path with no GPU texture
diffuse_color(tm, intersect) ==
    IF IsSome(intersect.material.texture)
    THEN LET texture_path == Unwrapped(intersect.material.texture)
             found == get_texture(tm, texture_path)
         IN  IF ~IsSome(found) THEN Panic
             ELSE LET texture == Unwrapped(found)
                      tx == AsU32(Div(intersect.u * texture.width, Scale))
                      ty == AsU32(Div(intersect.v * texture.height, Scale))
                  IN  Ok(get_pixel_color(tm, texture_path, tx, ty))
    ELSE Ok(intersect.material.diffuse)

\* color: the sum cast_ray returns
final_color(frame) ==
    LET material == frame.intersect.material
        diffuse == VScale(frame.diffuse_color, frame.total_diffuse_intensity)
    IN  VAdd(VAdd(VAdd(VAdd(material.emission,
                            VScale(diffuse, material.albedo[1])),
                       VScale(frame.total_specular, material.albedo[2])),
                  VScale(frame.reflection_color, material.reflectivity)),
             VScale(frame.refraction_color, material.transparency))

\* total_diffuse_intensity += ..., total_specular += ...: the sums after one more light
shade_add(total, added) ==
    [diffuse |-> total.diffuse + added.diffuse,
     specular |-> VAdd(total.specular, added.specular)]

\* the loop over the lights from position i on, from the sums so far
RECURSIVE shade_loop(_, _, _, _, _, _)
shade_loop(frame, lights, tree, objs, i, total) ==
    IF i > Len(lights) THEN total
    ELSE shade_loop(frame, lights, tree, objs, i + 1,
                    shade_add(total, shade_light(frame, lights[i], tree, objs)))

\* cast_ray from the sums of the lights on: the final colour, or the panic of the
\* texture lookup or of a recursive call
cast_ray_color(intersect, shaded, base, reflection, refraction) ==
    IF base.panic \/ reflection.panic \/ refraction.panic THEN Panic
    ELSE Ok(final_color([intersect |-> intersect,
                         diffuse_color |-> base.value,
                         total_diffuse_intensity |-> shaded.diffuse,
                         total_specular |-> shaded.specular,
                         reflection_color |-> reflection.value,
                         refraction_color |-> refraction.value]))

\* cast_ray as one call: the colour it returns, or the panic it unwinds with;
\* cast_ray_bounce is its recursive call along a reflected or refracted direction,
\* cast_ray_hit what it does with the nearest intersection
RECURSIVE cast_ray(_, _, _, _, _, _, _, _)
RECURSIVE cast_ray_bounce(_, _, _, _, _, _, _, _)
RECURSIVE cast_ray_hit(_, _, _, _, _, _, _, _, _)
cast_ray(ray_origin, ray_direction, tree, objs, primary, emissive, depth, tm) ==
    IF depth_cutoff(depth) THEN sample_skybox(tm, ray_direction)
    ELSE cast_ray_hit(ray_origin, ray_direction, tree, objs, primary, emissive, depth, tm,
                      nearest_hit(traverse(tree, objs, ray_origin, ray_direction),
                                  objs, ray_origin, ray_direction))

cast_ray_bounce(intersect, direction, tree, objs, primary, emissive, depth, tm) ==
    cast_ray(offset_origin(intersect, direction), direction, tree, objs, primary, emissive,
             next_depth(depth), tm)

cast_ray_hit(ray_origin, ray_direction, tree, objs, primary, emissive, depth, tm, intersect) ==
    IF ~intersect.is_intersecting THEN miss_color(tm, ray_direction)
    ELSE cast_ray_color(
             intersect,
             shade_loop([ray_origin |-> ray_origin, intersect |-> intersect],
                        build_lights(primary, emissive, objs, intersect), tree, objs, 1,
                        [diffuse |-> 0, specular |-> Zero3]),
             diffuse_color(tm, intersect),
             IF intersect.material.reflectivity > 0
             THEN cast_ray_bounce(intersect, reflect(ray_direction, intersect.normal),
                                  tree, objs, primary, emissive, depth, tm)
             ELSE Ok(Zero3),
             IF intersect.material.transparency > 0
             THEN cast_ray_bounce(intersect,
                                  refract(ray_direction, intersect.normal,
                                          intersect.material.refractive_index),
                                  tree, objs, primary, emissive, depth, tm)
             ELSE Ok(Zero3))

----------------------------------------------------------------------------
(* The scenes, rays and lights cast_ray is run on *)

\* the largest depth argument cast_ray is started with
MaxDepth0 == 2
\* the most emissive cubes a scene holds
MaxLamps == 7

Matte == MaterialOf(<<5000, 4000, 3000>>, <<8000, 2000>>, 2, 0, 0, Scale, None, Zero3)
Stone == MaterialOf(<<5000, 5000, 5000>>, <<Scale, 0>>, 0, 0, 0, 5000, Some(TexPath), Zero3)
Glass == MaterialOf(<<9000, 9500, Scale>>, <<1000, Scale>>, 3, 1500, 8500, 15000, Some(TexPath), Zero3)
Ice == MaterialOf(<<8000, 9000, Scale>>, <<5000, 5000>>, 1, 0, 5000, 2500, None, Zero3)
Torch == MaterialOf(<<Scale, 8000, 3000>>, <<3000, 1000>>, 1, 0, 0, Scale, None, <<8000, 6000, 0>>)

\* Cube::new(center, size, material) for a cube of half-size h
CubeAt(center, h, material) ==
    CubeOf(VSub(center, <<h, h, h>>), VAdd(center, <<h, h, h>>), material)

FrontCube(material) == CubeAt(<<4000, 0, 0>>, 1000, material)
BackCube(material) == CubeAt(<<-4000, 0, 0>>, 1000, material)
FarCube(material) == CubeAt(<<8000, 0, 0>>, 1000, material)
\* the i-th torch; with near set, the first torch sits next to the front cube's face
TorchCube(i, near) ==
    IF near /\ i = 1 THEN CubeAt(<<2500, 700, 100>>, 200, Torch)
    ELSE CubeAt(<<400 * i - 600, 3000, 1000>>, 200, Torch)

FrontMaterials == {Matte, Stone, Glass, Ice}
BehindMaterials == {Glass}

Torches(n, near) == [i \in 1..n |-> TorchCube(i, near)]

\* the object lists: an optional front cube, an optional pair of cubes behind the
\* camera and behind the front cube, then the torches; and two cubes in the same place
Scenes ==
    { front \o behind :
        front \in {<<>>} \cup {<<FrontCube(m)>> : m \in FrontMaterials},
        behind \in {<<>>} \cup {<<BackCube(m), FarCube(m)>> : m \in BehindMaterials} }
    \cup
    { base \o Torches(n, near) :
        base \in {<<FrontCube(Matte)>>}, n \in {2, 7, MaxLamps}, near \in BOOLEAN }
    \cup
    { <<FrontCube(Matte), FrontCube(Ice)>> }

\* objects.iter().filter(emission != 0): references to the emissive cubes, in order
RECURSIVE emissive_of(_, _)
emissive_of(objs, i) ==
    IF i > Len(objs) THEN <<>>
    ELSE (IF Dot(objs[i].material.emission, objs[i].material.emission) > 0 THEN <<i>> ELSE <<>>)
         \o emissive_of(objs, i + 1)

\* BVH::build: the leaf order of the tree, front to back or back to front
Trees(objs) == { [i \in 1..Len(objs) |-> i], [i \in 1..Len(objs) |-> Len(objs) + 1 - i] }

\* the directions sample_skybox is called with directly: every vector with components
\* in -MaxComponent..MaxComponent halves, the zero vector, the axes, the axis planes and
\* the tied diagonals among them
MaxComponent == 2
SkyDirections ==
    { <<x * 5000, y * 5000, z * 5000>> :
        x \in -MaxComponent..MaxComponent, y \in -MaxComponent..MaxComponent,
        z \in -MaxComponent..MaxComponent }

CameraEye == Zero3
RayDirections ==
    { Normalized(<<3000, 200, 100>>), Normalized(<<-3000, 200, 100>>),
      Normalized(<<100, 10000, 200>>) }
\* a ray that meets the front cube's face at a grazing angle
GrazingDirection == Normalized(<<3000, 900, 100>>)
\* the directions cast at a scene: the grazing ray is cast where a transparent material
\* has a refractive index below 1, the only place where it differs from the others
DirectionsFor(objs) ==
    RayDirections \cup
    (IF \E i \in DOMAIN objs : /\ objs[i].material.transparency > 0
                                /\ objs[i].material.refractive_index < Scale
     THEN {GrazingDirection} ELSE {})
\* the primary light: above the scene (lit or dark), behind the back cube, or between
\* the camera and the back cube
Lights ==
    { LightOf(<<0, 8000, 2000>>, <<Scale, 9500, 8000>>, intensity) : intensity \in {0, Scale} }
    \cup
    { LightOf(pos, <<4000, 4000, 8000>>, 5000) : pos \in {<<-8000, 500, 300>>, <<-1000, 300, 200>>} }
\* the primary lights a scene is lit with: the lights placed relative to the back cube
\* go with the scenes that have a cube behind the camera
LightsFor(objs) ==
    { l \in Lights : \/ l.position[1] >= 0
                     \/ \E i \in DOMAIN objs : objs[i].max_bounds[1] < 0 }

----------------------------------------------------------------------------
(* camera.rs and material.rs as render and main use them; main.rs: render, main *)

\* a x b for Scale-valued vectors
Cross(a, b) ==
    <<Div(a[2] * b[3] - a[3] * b[2], Scale),
      Div(a[3] * b[1] - a[1] * b[3], Scale),
      Div(a[1] * b[2] - a[2] * b[1], Scale)>>

\* f32::sin and f32::cos for the small angles the main loop reaches
Sin(t) == t - Div(Mul(Mul(t, t), t), 6)
Cos(t) == Scale - Div(Mul(t, t), 2)

\* Camera::update_basis: the orthonormal basis looking from eye to center
update_basis(eye, center, up) ==
    LET forward == Normalized(VSub(center, eye))
        right == Normalized(Cross(forward, up))
    IN  [eye |-> eye, center |-> center, forward |-> forward, right |-> right,
         up |-> Cross(right, forward)]

\* Camera::new
CameraNew(eye, center, up) == update_basis(eye, center, up)

\* Camera::orbit(delta_yaw, 0.0): the eye turns about the vertical axis through center
orbit(camera, delta_yaw) ==
    LET rel == VSub(camera.eye, camera.center)
        turned == <<Mul(rel[1], Cos(delta_yaw)) - Mul(rel[3], Sin(delta_yaw)),
                    rel[2],
                    Mul(rel[1], Sin(delta_yaw)) + Mul(rel[3], Cos(delta_yaw))>>
    IN  update_basis(VAdd(camera.center, turned), camera.center, <<0, Scale, 0>>)

\* Camera::basis_change: camera space to world space
basis_change(camera, v) ==
    VAdd(VAdd(VScale(camera.right, v[1]), VScale(camera.up, v[2])),
         VScale(camera.forward, -v[3]))

\* vector3_to_color: each channel clamped to [0, 1] and scaled to a byte, opaque
vector3_to_color(v) ==
    [r |-> Div(Clamp01(v[1]) * 255, Scale), g |-> Div(Clamp01(v[2]) * 255, Scale),
     b |-> Div(Clamp01(v[3]) * 255, Scale), a |-> 255]

\* (fov * 0.5).tan() for fov = PI / 3
PERSPECTIVE_SCALE == 5774

\* render: the world-space direction of the ray through pixel i
pixel_direction(i, width, height, camera) ==
    LET aspect_ratio == Div(width * Scale, height)
        x == i % width
        y == i \div width
        screen_x == Div(2 * x * Scale, width) - Scale
        screen_y == Scale - Div(2 * y * Scale, height)
        ray_direction == Normalized(<<Mul(Mul(screen_x, aspect_ratio), PERSPECTIVE_SCALE),
                                      Mul(screen_y, PERSPECTIVE_SCALE), -Scale>>)
    IN  basis_change(camera, ray_direction)

\* render: vector3_to_color(pixel_color_vec), unless cast_ray panicked
pixel_color(r) ==
    IF r.panic THEN [panic |-> TRUE, color |-> vector3_to_color(Zero3)]
    ELSE [panic |-> FALSE, color |-> vector3_to_color(r.value)]

\* render: the closure run for pixel i
pixel_task(i, width, height, tree, objs, camera, primary, emissive, tm) ==
    pixel_color(cast_ray(camera.eye, pixel_direction(i, width, height, camera), tree, objs,
                         primary, emissive, 0, tm))

\* a collect that appends the items as they arrive
collect_slot_arrival(i, arrived) == arrived

\* into_par_iter().map().collect(): item i lands in slot i, whenever it arrives
collect_slot(i, arrived) == i

\* a render that returns with the first finished pixel
render_returns_early(task_states) == \E i \in DOMAIN task_states : task_states[i] = "done"

\* collect() returns once every item has been produced
render_returns(task_states) == \A i \in DOMAIN task_states : task_states[i] = "done"

\* main: the window, the day/night clock and the controls
WINDOW_WIDTH == 2
WINDOW_HEIGHT == 2
\* rotation_speed * 0.3 for rotation_speed = PI / 100
AUTO_ROTATION == 94
VERTICAL_SPEED == 1500
DAY_NIGHT_SPEED == 100
TWO_PI == 62832
\* the sun's orbit, at the 1:25 scale of the scenes: 20.0, 15.0 and 5.0
SUN_DISTANCE == 8000
SUN_SWING == 6000
SUN_BASE == 2000
MIN_DAY_INTENSITY == 2000

\* main: the light of the frame from the day/night clock
sun_light(time_of_day_now) ==
    LET sun_angle == time_of_day_now
        sun_height == Mul(Sin(sun_angle), SUN_SWING) + SUN_BASE
        sun_x == Mul(Cos(sun_angle), SUN_DISTANCE)
        sun_z == Div(Mul(Sin(sun_angle), SUN_DISTANCE), 2)
        day_intensity == Max(Div(Sin(sun_angle), 2) + Scale \div 2, MIN_DAY_INTENSITY)
        sun_color == IF Sin(sun_angle) > 0 THEN <<Scale, 9500, 8000>> ELSE <<4000, 4000, 8000>>
    IN  LightOf(<<sun_x, sun_height, sun_z>>, sun_color, day_intensity)

\* main: the camera after the keys of one iteration (SPACE was handled before)
camera_after(camera, keys, rotating) ==
    LET raised == IF keys.w
                  THEN update_basis(VAdd(camera.eye, <<0, VERTICAL_SPEED, 0>>),
                                    VAdd(camera.center, <<0, VERTICAL_SPEED, 0>>),
                                    <<0, Scale, 0>>)
                  ELSE camera
    IN  IF rotating THEN orbit(raised, AUTO_ROTATION) ELSE raised

\* the keys of one iteration of the main loop: SPACE pressed, W held
Keys == [space : BOOLEAN, w : BOOLEAN]

\* a cube to the left of the front cube, as the camera sees it
SideCube(material) == CubeAt(<<4000, 0, -2300>>, 1000, material)

\* the scene main renders: a glass cube, a textured cube, a matte cube and two torches
MainScene == <<FrontCube(Glass), SideCube(Stone), BackCube(Matte)>> \o Torches(2, FALSE)

\* the most iterations of the main loop, and the workers of the thread pool
MaxFrames == 2
Workers == 2

----------------------------------------------------------------------------
(* State *)

VARIABLES
    texture_manager,   \* the TextureManager
    status,            \* "setup", "sampled", "running", "done", "panic", or "main"
    objects,           \* the scene's cubes
    bvh,               \* the built BVH: its leaf order
    light,             \* the primary light
    emissive_objects,  \* indices of the emissive cubes
    call,              \* the arguments of the outermost cast_ray call
    stack,             \* the cast_ray activations, outermost first
    result,            \* the colour the outermost call returned
    casts,             \* how many cast_ray calls were made, per depth
    traversals,        \* how many bvh.traverse calls cast_ray made
    shadows,           \* how many cast_shadow calls were made
    last_shadow,       \* the arguments, ray origin and result of the last cast_shadow call
    last_return,       \* the ray, depth and colour of the last cast_ray call that returned
    sky,               \* the direction and outcome of a direct sample_skybox call
    main_pc,           \* main: "setup", "input", "render", "present" or "closed"
    camera,            \* main: the camera
    auto_rotate,       \* main: the automatic rotation is on
    time_of_day,       \* main: the day/night clock
    frame_count,       \* main: the frames presented
    tasks,             \* render: each pixel's task, "idle", "running" or "done"
    pixel_data,        \* render: the buffer collect fills, a slot per pixel
    texture            \* main: the buffer last handed to update_texture

vars == <<texture_manager, status, objects, bvh, light, emissive_objects, call, stack,
          result, casts, traversals, shadows, last_shadow, last_return, sky,
          main_pc, camera, auto_rotate, time_of_day, frame_count, tasks, pixel_data, texture>>

main_vars == <<main_pc, camera, auto_rotate, time_of_day, frame_count, tasks, pixel_data, texture>>
cast_vars == <<call, stack, result, casts, traversals, shadows, last_shadow, last_return, sky>>

scene_vars == <<objects, bvh, light, emissive_objects, call>>

NoCall == [ray_origin |-> Zero3, ray_direction |-> Zero3, depth |-> 0]
NoReturn == [ray_direction |-> Zero3, depth |-> 0, color |-> Zero3]
NoShadow ==
    [intersect |-> EmptyIntersect, light |-> LightOf(Zero3, Zero3, 0), origin |-> Zero3,
     attenuation |-> 0]

NoSample ==
    [sampled |-> FALSE, direction |-> Zero3, face |-> "", u |-> 0, v |-> 0, divisor |-> 0,
     panic |-> FALSE, color |-> Zero3]

Init ==
    /\ texture_manager = EmptyManager
    /\ status = "setup"
    /\ objects = <<>>
    /\ bvh = <<>>
    /\ light = LightOf(Zero3, Zero3, 0)
    /\ emissive_objects = <<>>
    /\ call = NoCall
    /\ stack = <<>>
    /\ result = Zero3
    /\ casts = [d \in 0..(MaxDepth0 + 2) |-> 0]
    /\ traversals = 0
    /\ shadows = 0
    /\ last_shadow = NoShadow
    /\ last_return = NoReturn
    /\ sky = NoSample
    /\ main_pc = "setup"
    /\ camera = CameraNew(CameraEye, <<4000, 0, 0>>, <<0, Scale, 0>>)
    /\ auto_rotate = TRUE
    /\ time_of_day = 0
    /\ frame_count = 0
    /\ tasks = <<>>
    /\ pixel_data = <<>>
    /\ texture = <<>>

\* a fresh activation of cast_ray
Frame(ray_origin, ray_direction, depth) ==
    [ray_origin |-> ray_origin, ray_direction |-> ray_direction, depth |-> depth,
     pc |-> "entry", intersect |-> EmptyIntersect, lights |-> <<>>, next_light |-> 1,
     total_diffuse_intensity |-> 0, total_specular |-> Zero3, diffuse_color |-> Zero3,
     reflection_color |-> Zero3, refraction_color |-> Zero3]

Top == stack[Len(stack)]
SetTop(frame) == [stack EXCEPT ![Len(stack)] = frame]

\* the stack after the top activation returned color to its caller
Returned(color) ==
    LET caller == stack[Len(stack) - 1]
        rest == SubSeq(stack, 1, Len(stack) - 2)
    IN  IF caller.pc = "reflect_call"
        THEN rest \o <<[caller EXCEPT !.reflection_color = color, !.pc = "refract"]>>
        ELSE rest \o <<[caller EXCEPT !.refraction_color = color, !.pc = "color"]>>

\* the top activation returns r: to its caller, or as the result of the outermost call;
\* a panic unwinds every activation
Return(r) ==
    IF r.panic
    THEN /\ status' = "panic"
         /\ stack' = <<>>
         /\ UNCHANGED <<result, last_return>>
    ELSE /\ last_return' = [ray_direction |-> Top.ray_direction, depth |-> Top.depth,
                            color |-> r.value]
         /\ IF Len(stack) = 1
            THEN /\ status' = "done"
                 /\ stack' = <<>>
                 /\ result' = r.value
            ELSE /\ stack' = Returned(r.value)
                 /\ UNCHANGED <<status, result>>

----------------------------------------------------------------------------
(* Actions *)

\* main: texture_manager.load_texture(path)
LoadTexture ==
    /\ status = "setup"
    /\ \E path \in {TexPath, NoFilePath} :
         LET r == load_texture(texture_manager, path)
         IN  /\ status' = IF r.panic THEN "panic" ELSE "setup"
             /\ texture_manager' = r.tm
    /\ UNCHANGED <<main_vars, sky, scene_vars, stack, result, casts, traversals, shadows, last_shadow, last_return>>

\* main: texture_manager.load_skybox(skybox)
LoadSkybox ==
    /\ status = "setup"
    /\ LET r == load_skybox(texture_manager, Skybox)
       IN  /\ status' = IF r.panic THEN "panic" ELSE "setup"
           /\ texture_manager' = r.tm
    /\ UNCHANGED <<main_vars, sky, scene_vars, stack, result, casts, traversals, shadows, last_shadow, last_return>>

\* a call of sample_skybox(direction) on the texture manager as loaded so far
SampleSkybox ==
    /\ status = "setup"
    /\ \E direction \in SkyDirections :
         LET sel == SkyboxFace(direction)
             r == sample_skybox(texture_manager, direction)
         IN  sky' = [sampled |-> TRUE, direction |-> direction, face |-> sel.face,
                     u |-> sel.u, v |-> sel.v, divisor |-> sel.divisor,
                     panic |-> r.panic, color |-> r.value]
    /\ status' = IF sky'.panic THEN "panic" ELSE "sampled"
    /\ UNCHANGED <<main_vars, texture_manager, scene_vars, stack, result, casts, traversals,
                   shadows, last_shadow, last_return>>

\* a call of cast_ray on a built scene
StartCast ==
    /\ status = "setup"
    /\ \E objs \in Scenes, depth \in 0..MaxDepth0 :
         \E direction \in DirectionsFor(objs), primary \in LightsFor(objs), tree \in Trees(objs) :
           /\ objects' = objs
           /\ bvh' = tree
           /\ emissive_objects' = emissive_of(objs, 1)
           /\ light' = primary
           /\ call' = [ray_origin |-> CameraEye, ray_direction |-> direction, depth |-> depth]
           /\ stack' = <<Frame(CameraEye, direction, depth)>>
           /\ casts' = [casts EXCEPT ![depth] = @ + 1]
    /\ status' = "running"
    /\ UNCHANGED <<main_vars, sky, texture_manager, result, traversals, shadows, last_shadow, last_return>>

\* cast_ray, the depth cutoff
CastRayEntry ==
    /\ status = "running"
    /\ Top.pc = "entry"
    /\ IF depth_cutoff(Top.depth)
       THEN Return(sample_skybox(texture_manager, Top.ray_direction))
       ELSE /\ stack' = SetTop([Top EXCEPT !.pc = "traverse"])
            /\ UNCHANGED <<status, result, last_return>>
    /\ UNCHANGED <<main_vars, sky, texture_manager, scene_vars, casts, traversals, shadows, last_shadow>>

\* cast_ray, the traversal and the nearest hit
CastRayNearest ==
    /\ status = "running"
    /\ Top.pc = "traverse"
    /\ traversals' = traversals + 1
    /\ LET hit_shapes == traverse(bvh, objects, Top.ray_origin, Top.ray_direction)
           intersect == nearest_hit(hit_shapes, objects, Top.ray_origin, Top.ray_direction)
       IN  IF ~intersect.is_intersecting
           THEN Return(miss_color(texture_manager, Top.ray_direction))
           ELSE /\ stack' = SetTop([Top EXCEPT !.pc = "lights", !.intersect = intersect])
                /\ UNCHANGED <<status, result, last_return>>
    /\ UNCHANGED <<main_vars, sky, texture_manager, scene_vars, casts, shadows, last_shadow>>

\* cast_ray, the list of active lights
CastRayLights ==
    /\ status = "running"
    /\ Top.pc = "lights"
    /\ stack' = SetTop([Top EXCEPT !.pc = "shade",
                                   !.lights = build_lights(light, emissive_objects, objects,
                                                           Top.intersect)])
    /\ UNCHANGED <<main_vars, sky, texture_manager, status, scene_vars, result, casts, traversals, shadows,
                   last_shadow, last_return>>

\* cast_ray, one iteration of the loop over the lights
CastRayShade ==
    /\ status = "running"
    /\ Top.pc = "shade"
    /\ LET current_light == Top.lights[Top.next_light]
           added == shade_light(Top, current_light, bvh, objects)
       IN  /\ stack' = SetTop([Top EXCEPT
                 !.total_diffuse_intensity = @ + added.diffuse,
                 !.total_specular = VAdd(@, added.specular),
                 !.next_light = @ + 1,
                 !.pc = IF Top.next_light = Len(Top.lights) THEN "diffuse" ELSE "shade"])
           /\ last_shadow' = [intersect |-> Top.intersect, light |-> current_light,
                              origin |-> shadow_ray(Top.intersect, current_light).origin,
                              attenuation |-> added.shadow]
    /\ shadows' = shadows + 1
    /\ UNCHANGED <<main_vars, sky, texture_manager, status, scene_vars, result, casts, traversals, last_return>>

\* cast_ray, the diffuse base colour
CastRayDiffuse ==
    /\ status = "running"
    /\ Top.pc = "diffuse"
    /\ LET r == diffuse_color(texture_manager, Top.intersect)
       IN  IF r.panic THEN Return(r)
           ELSE /\ stack' = SetTop([Top EXCEPT !.pc = "reflect", !.diffuse_color = r.value])
                /\ UNCHANGED <<status, result, last_return>>
    /\ UNCHANGED <<main_vars, sky, texture_manager, scene_vars, casts, traversals, shadows, last_shadow>>

\* cast_ray, the reflection: the recursive call when reflectivity > 0
CastRayReflect ==
    /\ status = "running"
    /\ Top.pc = "reflect"
    /\ IF Top.intersect.material.reflectivity > 0
       THEN LET reflect_direction == reflect(Top.ray_direction, Top.intersect.normal)
                reflect_origin == offset_origin(Top.intersect, reflect_direction)
            IN  /\ stack' = SetTop([Top EXCEPT !.pc = "reflect_call"])
                             \o <<Frame(reflect_origin, reflect_direction, next_depth(Top.depth))>>
                /\ casts' = [casts EXCEPT ![next_depth(Top.depth)] = @ + 1]
       ELSE /\ stack' = SetTop([Top EXCEPT !.pc = "refract"])
            /\ UNCHANGED casts
    /\ UNCHANGED <<main_vars, sky, texture_manager, status, scene_vars, result, traversals, shadows, last_shadow,
                   last_return>>

\* cast_ray, the refraction: the recursive call when transparency > 0
CastRayRefract ==
    /\ status = "running"
    /\ Top.pc = "refract"
    /\ IF Top.intersect.material.transparency > 0
       THEN LET refract_direction == refract(Top.ray_direction, Top.intersect.normal,
                                             Top.intersect.material.refractive_index)
                refract_origin == offset_origin(Top.intersect, refract_direction)
            IN  /\ stack' = SetTop([Top EXCEPT !.pc = "refract_call"])
                             \o <<Frame(refract_origin, refract_direction, next_depth(Top.depth))>>
                /\ casts' = [casts EXCEPT ![next_depth(Top.depth)] = @ + 1]
       ELSE /\ stack' = SetTop([Top EXCEPT !.pc = "color"])
            /\ UNCHANGED casts
    /\ UNCHANGED <<main_vars, sky, texture_manager, status, scene_vars, result, traversals, shadows, last_shadow,
                   last_return>>

\* cast_ray, the final colour
CastRayColor ==
    /\ status = "running"
    /\ Top.pc = "color"
    /\ Return(Ok(final_color(Top)))
    /\ UNCHANGED <<main_vars, sky, texture_manager, scene_vars, casts, traversals, shadows, last_shadow>>

Next ==
    \/ LoadTexture
    \/ LoadSkybox
    \/ SampleSkybox
    \/ StartCast
    \/ CastRayEntry
    \/ CastRayNearest
    \/ CastRayLights
    \/ CastRayShade
    \/ CastRayDiffuse
    \/ CastRayReflect
    \/ CastRayRefract
    \/ CastRayColor

Spec == Init /\ [][Next]_vars

----------------------------------------------------------------------------
(* main: the loop that renders and presents frames *)

\* main before its loop: the textures and the skybox loaded, the scene and its BVH
\* built, the emissive cubes collected, the camera placed
MainInit ==
    /\ texture_manager = load_skybox(load_texture(EmptyManager, TexPath).tm, Skybox).tm
    /\ status = "main"
    /\ objects = MainScene
    /\ bvh \in Trees(MainScene)
    /\ emissive_objects = emissive_of(MainScene, 1)
    /\ light = LightOf(Zero3, Zero3, 0)
    /\ call = NoCall
    /\ stack = <<>>
    /\ result = Zero3
    /\ casts = [d \in 0..(MaxDepth0 + 2) |-> 0]
    /\ traversals = 0
    /\ shadows = 0
    /\ last_shadow = NoShadow
    /\ last_return = NoReturn
    /\ sky = NoSample
    /\ main_pc = "input"
    /\ camera = CameraNew(CameraEye, <<4000, 0, 0>>, <<0, Scale, 0>>)
    /\ auto_rotate = TRUE
    /\ time_of_day = 0
    /\ frame_count = 0
    /\ tasks = <<>>
    /\ pixel_data = <<>>
    /\ texture = <<>>

Pixels == 1..(WINDOW_WIDTH * WINDOW_HEIGHT)

\* main: the top of an iteration up to the call of render: the keys, the clock, the
\* light; render starts with no pixel evaluated
MainInput ==
    /\ main_pc = "input"
    /\ frame_count < MaxFrames
    /\ \E keys \in Keys :
         LET rotating == IF keys.space THEN ~auto_rotate ELSE auto_rotate
             advanced == time_of_day + DAY_NIGHT_SPEED
             clock == IF advanced > TWO_PI THEN 0 ELSE advanced
         IN  /\ auto_rotate' = rotating
             /\ camera' = camera_after(camera, keys, rotating)
             /\ time_of_day' = clock
             /\ light' = sun_light(clock)
    /\ tasks' = [i \in Pixels |-> "idle"]
    /\ pixel_data' = [i \in Pixels |-> None]
    /\ main_pc' = "render"
    /\ UNCHANGED <<texture_manager, status, objects, bvh, emissive_objects, cast_vars,
                   frame_count, texture>>

\* main: window_should_close ends the loop
MainClose ==
    /\ main_pc = "input"
    /\ main_pc' = "closed"
    /\ UNCHANGED <<texture_manager, status, scene_vars, stack, result, casts, traversals,
                   shadows, last_shadow, last_return, sky, camera, auto_rotate, time_of_day,
                   frame_count, tasks, pixel_data, texture>>

\* render: a worker of the pool takes up a pixel
TaskStart ==
    /\ status = "main"
    /\ \E i \in DOMAIN tasks :
         /\ tasks[i] = "idle"
         /\ Cardinality({j \in DOMAIN tasks : tasks[j] = "running"}) < Workers
         /\ tasks' = [tasks EXCEPT ![i] = "running"]
    /\ UNCHANGED <<texture_manager, status, scene_vars, stack, result, casts, traversals,
                   shadows, last_shadow, last_return, sky, main_pc, camera, auto_rotate,
                   time_of_day, frame_count, pixel_data, texture>>

\* render: a worker finishes its pixel and the colour goes to the collected buffer; a
\* panic of the closure aborts main
TaskFinish ==
    /\ status = "main"
    /\ \E i \in DOMAIN tasks :
         /\ tasks[i] = "running"
         /\ LET r == pixel_task(i - 1, WINDOW_WIDTH, WINDOW_HEIGHT, bvh, objects, camera,
                                light, emissive_objects, texture_manager)
                arrived == Cardinality({j \in DOMAIN tasks : tasks[j] = "done"})
            IN  IF r.panic
                THEN /\ status' = "panic"
                     /\ UNCHANGED <<tasks, pixel_data>>
                ELSE /\ tasks' = [tasks EXCEPT ![i] = "done"]
                     /\ pixel_data' = [pixel_data EXCEPT ![collect_slot(i - 1, arrived) + 1] =
                                                             Some(r.color)]
                     /\ UNCHANGED status
    /\ UNCHANGED <<texture_manager, scene_vars, stack, result, casts, traversals,
                   shadows, last_shadow, last_return, sky, main_pc, camera, auto_rotate,
                   time_of_day, frame_count, texture>>

\* main: render returns pixel_data
RenderReturn ==
    /\ status = "main"
    /\ main_pc = "render"
    /\ render_returns(tasks)
    /\ main_pc' = "present"
    /\ UNCHANGED <<texture_manager, status, scene_vars, stack, result, casts, traversals,
                   shadows, last_shadow, last_return, sky, camera, auto_rotate, time_of_day,
                   frame_count, tasks, pixel_data, texture>>

\* main: update_texture(pixel_bytes), the drawing, frame_count += 1
Present ==
    /\ status = "main"
    /\ main_pc = "present"
    /\ texture' = pixel_data
    /\ frame_count' = frame_count + 1
    /\ main_pc' = "input"
    /\ UNCHANGED <<texture_manager, status, scene_vars, stack, result, casts, traversals,
                   shadows, last_shadow, last_return, sky, camera, auto_rotate, time_of_day,
                   tasks, pixel_data>>

MainNext ==
    \/ MainInput
    \/ MainClose
    \/ TaskStart
    \/ TaskFinish
    \/ RenderReturn
    \/ Present

MainSpec == MainInit /\ [][MainNext]_vars

----------------------------------------------------------------------------
(* Properties *)

Running == status = "running"

\* the sky colour for a direction under the current texture manager
Sky(direction) == sample_skybox(texture_manager, direction).value

\* the top activation returned color: one activation less, and the colour is the
\* outermost result or sits in the caller's reflection or refraction slot
ReturnedFromTop(color) ==
    /\ last_return' = [ray_direction |-> Top.ray_direction, depth |-> Top.depth, color |-> color]
    /\ Len(stack') = Len(stack) - 1
    /\ IF Len(stack) = 1
       THEN status' = "done" /\ result' = color
       ELSE /\ status' = "running"
            /\ LET before == stack[Len(stack) - 1]
                   after == stack'[Len(stack) - 1]
               IN  IF before.pc = "reflect_call"
                   THEN after.reflection_color = color /\ after.pc = "refract"
                   ELSE after.refraction_color = color /\ after.pc = "color"

\* C1: a cast_ray call with depth > 1 returns sample_skybox(ray_direction) in its first
\* step, whatever the scene, the light and the emissive set: no traversal, no shadow
\* test and no recursive call is made for it.
C1_DepthCutoff ==
    [][ (Running /\ Top.pc = "entry" /\ Top.depth > 1) =>
            /\ ReturnedFromTop(Sky(Top.ray_direction))
            /\ traversals' = traversals
            /\ shadows' = shadows
            /\ casts' = casts ]_vars

\* an outermost call at depth > 1 over a scene with cubes and torches returned the sky
C1_Witness ==
    /\ status = "done"
    /\ call.depth > 1
    /\ Len(emissive_objects) > 0
    /\ result = Sky(call.ray_direction)
    /\ traversals = 0

\* the cast_ray calls made at depth d and deeper
RECURSIVE CastsFrom(_)
CastsFrom(d) == IF d \notin DOMAIN casts THEN 0 ELSE casts[d] + CastsFrom(d + 1)

TotalCasts == CastsFrom(0)

\* the activations are nested with depths 0, 1, 2, only those at depth 0 and 1 get
\* past the cutoff, and at most 1 + 2 + 4 calls are made
C2_Bounded ==
    (TotalCasts > 0 /\ call.depth = 0) =>
        /\ \A k \in 1..Len(stack) :
              /\ stack[k].depth = k - 1
              /\ stack[k].depth <= 2
              /\ stack[k].pc # "entry" => stack[k].depth <= 1
        /\ casts[0] = 1 /\ casts[1] <= 2 /\ casts[2] <= 4
        /\ TotalCasts <= 7
        /\ traversals <= casts[0] + casts[1]

\* the most steps a fresh cast_ray call at the given depth can take: one per
\* statement group, one per light, and the two recursive calls
RECURSIVE EntryRank(_)
EntryRank(depth) ==
    IF depth > 1 THEN 1
    ELSE 8 + (1 + EMISSIVE_TAKE) + 2 * EntryRank(depth + 1)

\* the most steps an activation can still take, the calls it has yet to make included
FrameRank(frame) ==
    LET sub == EntryRank(frame.depth + 1)
        from_color == 1
        from_refract == 1 + sub + from_color
        from_reflect == 1 + sub + from_refract
        from_diffuse == 1 + from_reflect
    IN  CASE frame.pc = "entry" -> EntryRank(frame.depth)
          [] frame.pc = "traverse" -> 3 + EMISSIVE_TAKE + from_diffuse
          [] frame.pc = "lights" -> 2 + EMISSIVE_TAKE + from_diffuse
          [] frame.pc = "shade" -> (Len(frame.lights) + 1 - frame.next_light) + from_diffuse
          [] frame.pc = "diffuse" -> from_diffuse
          [] frame.pc = "reflect" -> from_reflect
          [] frame.pc = "reflect_call" -> from_refract
          [] frame.pc = "refract" -> from_refract
          [] frame.pc = "refract_call" -> from_color
          [] frame.pc = "color" -> from_color

RECURSIVE StackRank(_, _)
StackRank(frames, k) == IF k > Len(frames) THEN 0 ELSE FrameRank(frames[k]) + StackRank(frames, k + 1)

\* a bound on the steps left before the outermost call has returned or panicked
Rank == StackRank(stack, 1)

\* the top activation stands at a statement that can execute: a running evaluation is
\* never stuck
CanStep ==
    /\ Len(stack) >= 1
    /\ Top.pc \in {"entry", "traverse", "lights", "shade", "diffuse", "reflect", "refract", "color"}
    /\ Top.pc = "shade" => Top.next_light <= Len(Top.lights)

\* C2: a cast_ray evaluation started at depth 0 terminates (every step lowers Rank, and
\* a running evaluation always has a next step); the depth grows by one per nested
\* call and never exceeds 2, the scene is intersected at depths 0 and 1 only, and at
\* most 7 calls are made.
C2_Terminates ==
    [][ /\ C2_Bounded'
        /\ (Running /\ call.depth = 0) => (0 <= Rank' /\ Rank' < Rank)
        /\ (Running' /\ call'.depth = 0) => CanStep' ]_vars

\* a primary ray whose reflection and refraction both hit glass: 1 + 2 + 4 calls
C2_Witness ==
    /\ status = "done"
    /\ call.depth = 0
    /\ casts[0] = 1 /\ casts[1] = 2 /\ casts[2] = 4
    /\ traversals = 3

\* no candidate of the traversal for the top activation's ray reports a hit
NoCandidateHits ==
    LET hit_shapes == traverse(bvh, objects, Top.ray_origin, Top.ray_direction)
    IN  \A i \in 1..Len(hit_shapes) :
            ~ray_intersect(objects[hit_shapes[i]], Top.ray_origin, Top.ray_direction).is_intersecting

\* C3: when no candidate reports an intersection, cast_ray at depth 0 or 1 returns
\* sample_skybox(ray_direction): no shadow ray is cast and no recursive call is made.
C3_MissReturnsSky ==
    [][ (Running /\ Top.pc = "traverse" /\ NoCandidateHits) =>
            /\ ReturnedFromTop(Sky(Top.ray_direction))
            /\ shadows' = shadows
            /\ casts' = casts ]_vars

\* a refraction ray that starts inside the front cube, its only candidate, and leaves
\* the scene: the call at depth 1 returned the sky
C3_Witness ==
    /\ Running
    /\ Len(stack) = 1
    /\ Top.pc = "color"
    /\ Top.intersect.material.transparency > 0
    /\ last_return.depth = 1
    /\ Top.refraction_color = Sky(last_return.ray_direction)
    /\ Len(traverse(bvh, objects, offset_origin(Top.intersect, last_return.ray_direction),
                    last_return.ray_direction)) > 0

\* the shadow ray of the last cast_shadow call and the candidates the traversal gave
LastShadowRay == shadow_ray(last_shadow.intersect, last_shadow.light)
LastShadowCandidates == traverse(bvh, objects, LastShadowRay.origin, LastShadowRay.direction)

\* the candidate is intersected by the last shadow ray
ShadowHit(i) ==
    ray_intersect(objects[LastShadowCandidates[i]], LastShadowRay.origin,
                  LastShadowRay.direction)

\* C4: cast_shadow returns 0.0 or 0.7 only, and 0.7 exactly when some candidate is
\* intersected by the shadow ray at a distance strictly below the distance to the
\* light; an intersection at or beyond the light leaves it at 0.0.
C4_ShadowBinary ==
    shadows > 0 =>
        /\ last_shadow.attenuation \in {0, SHADOW_ATTENUATION}
        /\ last_shadow.attenuation = SHADOW_ATTENUATION <=>
               \E i \in 1..Len(LastShadowCandidates) :
                   /\ ShadowHit(i).is_intersecting
                   /\ ShadowHit(i).distance < LastShadowRay.light_distance

\* a shadow ray whose only intersected candidates lie beyond the light: no attenuation
C4_Witness ==
    /\ shadows > 0
    /\ last_shadow.attenuation = 0
    /\ \E i \in 1..Len(LastShadowCandidates) :
           /\ ShadowHit(i).is_intersecting
           /\ ShadowHit(i).distance >= LastShadowRay.light_distance

\* the top activation has built its light list
LightsBuilt == Running /\ Top.pc \in {"shade", "diffuse"}

\* the emissive cube's centre is farther than the degenerate distance from the hit
FarFromHit(i) ==
    LET diff_vec == VSub(cube_center(objects[i]), Top.intersect.point)
    IN  Dot(diff_vec, diff_vec) >= SELF_LIGHT_DIST_SQ

\* the first five emissive cubes in iteration order, less the degenerate ones
TakenEmissive ==
    SelectSeq(SubSeq(emissive_objects, 1, Min(Len(emissive_objects), 5)), FarFromHit)

BiasOf(k) == VSub(stack[k].ray_origin, stack[k - 1].intersect.point)
\* the nested call's direction along the caller's normal
AlongNormal(k) == Dot(stack[k].ray_direction, stack[k - 1].intersect.normal)
NormalBias(k) == VScale(stack[k - 1].intersect.normal, ORIGIN_BIAS)

\* C6 as stated: the origin is the hit point minus normal*epsilon when the ray direction
\* and the normal point the same way, and plus normal*epsilon otherwise.
C6_SameWaySubtracts ==
    \A k \in 2..Len(stack) :
        BiasOf(k) = IF AlongNormal(k) > 0 THEN VNeg(NormalBias(k)) ELSE NormalBias(k)

\* C6 amended: offset_origin returns the hit point minus normal*epsilon when the ray
\* direction points against the normal (negative dot product), and the hit point plus
\* normal*epsilon otherwise (zero or positive dot product).
C6_OffsetOrigin ==
    \A k \in 2..Len(stack) :
        /\ AlongNormal(k) < 0 => BiasOf(k) = VNeg(NormalBias(k))
        /\ AlongNormal(k) >= 0 => BiasOf(k) = NormalBias(k)

\* a refraction ray entering the glass, against the normal, starts inside the surface
C6_Witness ==
    /\ Len(stack) = 2
    /\ stack[1].pc = "refract_call"
    /\ AlongNormal(2) < 0
    /\ BiasOf(2) = VNeg(NormalBias(2))
    /\ NormalBias(2) # Zero3

\* C7: the shadow ray starts where offset_origin would put a ray towards the light.
C7_SharedBias ==
    shadows > 0 =>
        last_shadow.origin = offset_origin(last_shadow.intersect, LastShadowRay.direction)

\* the hit material names a texture that was never loaded
TextureMissing ==
    /\ IsSome(Top.intersect.material.texture)
    /\ Unwrapped(Top.intersect.material.texture) \notin DOMAIN texture_manager.textures

\* the hit material is opaque, non-emissive and non-reflective
PlainMaterial(material) ==
    /\ material.transparency = 0
    /\ material.reflectivity = 0
    /\ material.emission = Zero3

C9_MissingTextureIsWhite ==
    [][ (Running /\ Top.pc = "diffuse" /\ TextureMissing) =>
            /\ status' # "panic"
            /\ stack'[Len(stack)].diffuse_color = One3 ]_vars

\* C11: with a cube-map configured, sample_skybox picks one of the six faces for every
\* direction, ties and axis-plane directions included; the component it divides by is
\* the largest absolute component, which is positive for a nonzero direction; u and v
\* lie in [0, 1], and the call does not panic.
C11_FaceSelection ==
    (sky.sampled /\ IsSome(texture_manager.skybox_textures)) =>
        /\ sky.face \in {SkyFaces[i] : i \in 1..6}
        /\ sky.divisor = Max3(Abs(sky.direction[1]), Abs(sky.direction[2]), Abs(sky.direction[3]))
        /\ sky.direction # Zero3 => sky.divisor > 0
        /\ 0 <= sky.u /\ sky.u <= Scale
        /\ 0 <= sky.v /\ sky.v <= Scale
        /\ ~sky.panic
        /\ status = "sampled"
        /\ sky.color \in
               LET pixels == texture_manager.cpu_textures[Skybox[sky.face]].pixels
               IN  {pixels[i] : i \in DOMAIN pixels}

\* a direction in the plane y = 0 with |x| = |z| was sampled from the cube-map
C11_Witness ==
    /\ sky.sampled
    /\ IsSome(texture_manager.skybox_textures)
    /\ sky.direction[2] = 0
    /\ sky.direction[1] # 0
    /\ Abs(sky.direction[1]) = Abs(sky.direction[3])
    /\ sky.face = "front"
    /\ status = "sampled"

\* the colour of the pixel at column x, row y under the current scene, camera and light
PixelAt(x, y) ==
    LET screen_x == Div(2 * x * Scale, WINDOW_WIDTH) - Scale
        screen_y == Scale - Div(2 * y * Scale, WINDOW_HEIGHT)
        aspect_ratio == Div(WINDOW_WIDTH * Scale, WINDOW_HEIGHT)
        in_camera == Normalized(<<Mul(Mul(screen_x, aspect_ratio), PERSPECTIVE_SCALE),
                                  Mul(screen_y, PERSPECTIVE_SCALE), -Scale>>)
    IN  vector3_to_color(cast_ray(camera.eye, basis_change(camera, in_camera), bvh, objects,
                                  light, emissive_objects, 0, texture_manager).value)

\* every slot of the buffer is written
BufferComplete ==
    /\ Len(pixel_data) = WINDOW_WIDTH * WINDOW_HEIGHT
    /\ \A k \in DOMAIN pixel_data : IsSome(pixel_data[k])

\* C12: render returns width*height colours in row-major order: entry i is the pixel at
\* column i mod width, row i div width, cast at depth 0; a slot is written by its own
\* pixel's task only, so the buffer is the same whatever the order in which the workers
\* take up and finish the pixels.
C12_RowMajorBuffer ==
    /\ \A k \in DOMAIN pixel_data :
           IsSome(pixel_data[k]) =>
               /\ tasks[k] = "done"
               /\ Unwrapped(pixel_data[k]) =
                      PixelAt((k - 1) % WINDOW_WIDTH, (k - 1) \div WINDOW_WIDTH)
    /\ main_pc = "present" => BufferComplete

\* the second frame's render returned a buffer whose pixels are not all alike
C12_Witness ==
    /\ main_pc = "present"
    /\ frame_count = 1
    /\ BufferComplete
    /\ pixel_data[1] # pixel_data[Len(pixel_data)]
    /\ pixel_data # texture

\* a pixel of the render pass is still to be evaluated
RenderInFlight == \E k \in DOMAIN tasks : tasks[k] \in {"idle", "running"}

\* C13: a frame runs to completion before the next begins: the buffer is presented only
\* when every pixel's task has finished, the next iteration starts only after that
\* buffer was presented, and camera, light, scene, emissive set, acceleration structure
\* and texture tables change only between render passes.
C13_FrameBarrier ==
    [][ /\ RenderInFlight =>
               UNCHANGED <<camera, light, objects, bvh, emissive_objects, texture_manager>>
        /\ (texture' # texture \/ frame_count' # frame_count) =>
               /\ ~RenderInFlight
               /\ BufferComplete
               /\ texture' = pixel_data
        /\ (main_pc # "render" /\ main_pc' = "render") =>
               /\ ~RenderInFlight
               /\ texture = pixel_data ]_vars

\* two frames were rendered and presented, the camera having moved in between
C13_Witness ==
    /\ main_pc = "input"
    /\ frame_count = 2
    /\ BufferComplete
    /\ texture = pixel_data
    /\ camera.eye[2] = 2 * VERTICAL_SPEED
    /\ time_of_day = 2 * DAY_NIGHT_SPEED

----------------------------------------------------------------------------
(* C14 *)

\* the activation on top of the stack hit a transparent material at an angle that admits
\* no refracted direction
DegenerateRefraction ==
    /\ Top.intersect.material.transparency > 0
    /\ total_internal_reflection(Top.ray_direction, Top.intersect.normal,
                                 Top.intersect.material.refractive_index)

\* C14: when the hit material has transparency > 0 and the refraction is degenerate,
\* the refraction term of the final colour, refraction_color * transparency, is zero
C14_NoDegenerateContribution ==
    (Running /\ Top.pc = "color" /\ DegenerateRefraction) =>
        VScale(Top.refraction_color, Top.intersect.material.transparency) = Zero3

\* a degenerate refraction whose recursive call returned a colour other than black
C14_Reached ==
    /\ Running /\ Top.pc = "color" /\ DegenerateRefraction
    /\ casts[next_depth(Top.depth)] > 0
    /\ Top.refraction_color # Zero3
----------------------------------------------------------------------------
(* C15 *)

\* the candidates of the top activation's ray, in traversal order, and what each reports
TopCandidates == traverse(bvh, objects, Top.ray_origin, Top.ray_direction)
TopReport(k) == ray_intersect(objects[TopCandidates[k]], Top.ray_origin, Top.ray_direction)
TopHitting == {k \in DOMAIN TopCandidates : TopReport(k).is_intersecting}

\* C15: the intersection cast_ray goes on to shade is the one of a candidate that reports
\* a hit, no candidate that reports a hit is nearer, and every hitting candidate that the
\* traversal yields before it is strictly farther: the first of the nearest ones is kept
C15_NearestHit ==
    (Running /\ Top.pc = "lights") =>
        \E k \in TopHitting :
            /\ Top.intersect = TopReport(k)
            /\ \A j \in TopHitting : TopReport(k).distance <= TopReport(j).distance
            /\ \A j \in TopHitting : j < k => TopReport(j).distance > TopReport(k).distance

\* two candidates of different materials report a hit at the same distance
C15_Witness ==
    /\ Running /\ Top.pc = "lights"
    /\ \E j, k \in TopHitting :
          /\ j < k
          /\ TopReport(j).distance = TopReport(k).distance
          /\ TopReport(j).material # TopReport(k).material
          /\ Top.intersect = TopReport(j)
----------------------------------------------------------------------------
(* C16 *)

\* the six face identifiers of a skybox
FacePaths(skybox) == {skybox[SkyFaces[i]] : i \in 1..6}

\* for each face a direction sample_skybox looks that face up for
FaceAxis ==
    [front |-> <<0, 0, Scale>>, back |-> <<0, 0, -Scale>>, left |-> <<-Scale, 0, 0>>,
     right |-> <<Scale, 0, 0>>, top |-> <<0, Scale, 0>>, bottom |-> <<0, -Scale, 0>>]

\* C16: as long as no load panicked, the CPU pixel table and the GPU texture table hold
\* the same identifiers, loading an identifier that is already loaded (or the configured
\* skybox again) returns the manager unchanged, and a configured skybox has its six
\* faces in the CPU pixel table, so that the lookup of every face in sample_skybox succeeds
C16_TextureTables ==
    status # "panic" =>
        /\ DOMAIN texture_manager.cpu_textures = DOMAIN texture_manager.textures
        /\ \A path \in DOMAIN texture_manager.textures :
               load_texture(texture_manager, path) = [panic |-> FALSE, tm |-> texture_manager]
        /\ IsSome(texture_manager.skybox_textures) =>
               LET skybox == Unwrapped(texture_manager.skybox_textures)
               IN  /\ FacePaths(skybox) \subseteq DOMAIN texture_manager.cpu_textures
                   /\ load_skybox(texture_manager, skybox) =
                          [panic |-> FALSE, tm |-> texture_manager]
                   /\ \A f \in DOMAIN FaceAxis :
                          /\ SkyboxFace(FaceAxis[f]).face = f
                          /\ ~sample_skybox(texture_manager, FaceAxis[f]).panic

\* the skybox and a material texture are loaded and the sky was sampled
C16_Witness ==
    /\ status = "sampled"
    /\ IsSome(texture_manager.skybox_textures)
    /\ TexPath \in DOMAIN texture_manager.cpu_textures
    /\ Cardinality(DOMAIN texture_manager.cpu_textures) = 7
    /\ sky.sampled /\ ~sky.panic
====
